---- MODULE Spec2Model ----
(***************************************************************************)
(* A model of ab_testing/experiment.py: Variant objects on a heap, and     *)
(* Experiment instances that hold REFERENCES to them (self.variants is the *)
(* caller's list, and __init__ rewrites the weights of the caller's        *)
(* objects in place).                                                      *)
(*                                                                         *)
(* Floats are modelled as exact rationals <<numerator, denominator>> in    *)
(* lowest terms with a positive denominator: division is Python's true     *)
(* division without rounding.  hash() of a string is a process-keyed       *)
(* function (PYTHONHASHSEED): the key is drawn once, in Init.  The         *)
(* generator random.Random(seed) is a deterministic stream indexed by      *)
(* (seed, number of draws so far); an omitted seed is a seed drawn from    *)
(* the operating system's entropy at construction.                         *)
(***************************************************************************)
EXTENDS Integers, Sequences, FiniteSets, TLC

VARIABLES
    heap,     \* object id -> Variant object (name, weight, conversions, exposures)
    exps,     \* the Experiment instances, in order of construction
    hashKey,  \* the process's string-hash key
    ret,      \* what the last call returned or raised
    assigned, \* history: the first assignment made for each (user_id, experiment
              \* name, weights in list order), by calls that gave a user_id
    history   \* history: for each Experiment instance the seed and the variants'
              \* names and weights it was constructed with, and the variants
              \* (list positions) its calls without user_id returned, in order

vars == <<heap, exps, hashKey, ret, assigned, history>>

(***************************************************************************)
(* Bounds of the model.                                                    *)
(***************************************************************************)
MaxLen == 2
MaxExposures == 2
MaxConversions == 2
MaxDraws == 2
MaxInterleaved == 2

(***************************************************************************)
(* Program constants.                                                      *)
(***************************************************************************)
HashModulus == 10000
MinVariants == 2

None == "None"

VariantIds == {1, 2}
ExpIds == {1, 2}
VariantNames == {"control", "treatment"}
LookupNames == VariantNames \cup {"invalid"}
ExpNames == {"test", "1test"}
UserIds == {"u", "u1"}
Seeds == {0, 1}
\* Optional[int]: <<>> is None, <<s>> is the seed s
SeedArgs == {<<>>} \cup {<<s>> : s \in Seeds}
HashKeys == {0, 1}

(***************************************************************************)
(* Rational arithmetic (the model of float).                               *)
(***************************************************************************)
Abs(n) == IF n < 0 THEN -n ELSE n

RECURSIVE Gcd(_, _)
Gcd(a, b) == IF b = 0 THEN a ELSE Gcd(b, a % b)

Rat(n, d) == LET g == Gcd(Abs(n), d) IN <<n \div g, d \div g>>

Zero == <<0, 1>>
One == <<1, 1>>

RatAdd(a, b) == Rat(a[1] * b[2] + b[1] * a[2], a[2] * b[2])

\* a / b for b > 0
RatDiv(a, b) == Rat(a[1] * b[2], a[2] * b[1])

RatLeq(a, b) == a[1] * b[2] <= b[1] * a[2]

RatLt(a, b) == a[1] * b[2] < b[1] * a[2]

SuppliedWeights == {Rat(-1, 1), Rat(1, 1), Rat(3, 1)}

(***************************************************************************)
(* Variant                                                                 *)
(***************************************************************************)
\* Variant(name, weight): the dataclass defaults conversions = exposures = 0
Variant(name, weight) ==
    [name |-> name, weight |-> weight, conversions |-> 0, exposures |-> 0]

\* A variant of conversion_rate that tests conversions in place of exposures
conversion_rate_tests_conversions(v) ==
    IF v.conversions = 0 THEN Zero ELSE Rat(v.conversions, v.exposures)

\* Variant.conversion_rate
conversion_rate(v) ==
    IF v.exposures = 0 THEN Zero ELSE Rat(v.conversions, v.exposures)

RECURSIVE SumOver(_, _)
SumOver(f, ids) ==
    IF ids = {} THEN 0
    ELSE LET id == CHOOSE x \in ids : TRUE IN f[id] + SumOver(f, ids \ {id})

\* The model's caps on the counters, which the program leaves unbounded
ExposuresLeft(h) == SumOver([id \in DOMAIN h |-> h[id].exposures], DOMAIN h) < MaxExposures
ConversionsLeft(h) == SumOver([id \in DOMAIN h |-> h[id].conversions], DOMAIN h) < MaxConversions

\* A variant of record_exposure that counts the exposure as a conversion too
record_exposure_and_conversion(h, id) ==
    [h EXCEPT ![id].exposures = @ + 1, ![id].conversions = @ + 1]

\* Variant.record_exposure, on the object id of heap h
record_exposure(h, id) == [h EXCEPT ![id].exposures = @ + 1]

\* A variant of record_conversion that adds to exposures in place of conversions
record_conversion_counts_exposure(h, id) == [h EXCEPT ![id].exposures = @ + 1]

\* Variant.record_conversion, on the object id of heap h
record_conversion(h, id) == [h EXCEPT ![id].conversions = @ + 1]

(***************************************************************************)
(* Experiment.__init__                                                     *)
(***************************************************************************)
\* sum(v.weight for v in self.variants)
RECURSIVE SumWeights(_, _, _)
SumWeights(h, variants, i) ==
    IF i > Len(variants) THEN Zero
    ELSE RatAdd(h[variants[i]].weight, SumWeights(h, variants, i + 1))

total_weight(h, variants) == SumWeights(h, variants, 1)

\* for variant in self.variants: variant.weight = variant.weight / total_weight
\* (in place, in list order: an object listed twice is divided twice)
RECURSIVE NormalizeFrom(_, _, _, _)
NormalizeFrom(h, variants, total, i) ==
    IF i > Len(variants) THEN h
    ELSE NormalizeFrom([h EXCEPT ![variants[i]].weight = RatDiv(@, total)],
                       variants, total, i + 1)

NormalizeWeights(h, variants, total) == NormalizeFrom(h, variants, total, 1)

\* The first validation: len(variants) < 2
TooFewVariants(variants) == Len(variants) < MinVariants

\* A variant of the second validation that lets a total of 0 pass
NegativeTotal(h, variants) == RatLt(total_weight(h, variants), Zero)

\* The second validation: total_weight <= 0
NonPositiveTotal(h, variants) == RatLeq(total_weight(h, variants), Zero)

VariantLists == UNION {[1 .. n -> VariantIds] : n \in 0 .. MaxLen}

Constructed(e) == e \in DOMAIN exps

\* A variant of __init__ that counts the variants after rewriting the weights
Experiment_normalizing_first(name, variants, seed) ==
    /\ IF NonPositiveTotal(heap, variants)
       THEN /\ ret' = [op |-> "Experiment", raised |-> "Total weight must be positive",
                       name |-> name, variants |-> variants, seed |-> seed]
            /\ UNCHANGED <<heap, exps>>
       ELSE IF TooFewVariants(variants)
       THEN /\ ret' = [op |-> "Experiment", raised |-> "at least 2 variants",
                       name |-> name, variants |-> variants, seed |-> seed]
            /\ heap' = NormalizeWeights(heap, variants, total_weight(heap, variants))
            /\ UNCHANGED exps
       ELSE /\ heap' = NormalizeWeights(heap, variants, total_weight(heap, variants))
            /\ \E entropy \in Seeds :
                  exps' = Append(exps,
                             [name |-> name, variants |-> variants,
                              random |-> [seed |-> IF seed = <<>> THEN entropy ELSE seed[1],
                                          draws |-> 0]])
            /\ ret' = [op |-> "Experiment", raised |-> None,
                       name |-> name, variants |-> variants, seed |-> seed]
    /\ UNCHANGED <<hashKey, assigned>>

\* Experiment(name, variants, seed): a new instance is appended on success
Experiment(name, variants, seed) ==
    /\ IF TooFewVariants(variants)
       THEN /\ ret' = [op |-> "Experiment", raised |-> "at least 2 variants",
                       name |-> name, variants |-> variants, seed |-> seed]
            /\ UNCHANGED <<heap, exps>>
       ELSE IF NonPositiveTotal(heap, variants)
       THEN /\ ret' = [op |-> "Experiment", raised |-> "Total weight must be positive",
                       name |-> name, variants |-> variants, seed |-> seed]
            /\ UNCHANGED <<heap, exps>>
       ELSE /\ heap' = NormalizeWeights(heap, variants, total_weight(heap, variants))
            /\ \E entropy \in Seeds :
                  exps' = Append(exps,
                             [name |-> name, variants |-> variants,
                              random |-> [seed |-> IF seed = <<>> THEN entropy ELSE seed[1],
                                          draws |-> 0]])
            /\ ret' = [op |-> "Experiment", raised |-> None,
                       name |-> name, variants |-> variants, seed |-> seed]
    /\ UNCHANGED <<hashKey, assigned>>

(***************************************************************************)
(* Experiment.assign_variant                                               *)
(***************************************************************************)
\* hash(str) under the process key: an arbitrary integer, negative ones included
HashValues == <<5000, -7500, 19999, -10000>>

Hash(key, str) == HashValues[((Len(str) + key) % Len(HashValues)) + 1]

\* A variant of the bucket whose remainder has the sign of the hash (C's %)
HashBucketTruncating(hash_val) ==
    Rat(IF hash_val < 0 THEN -((-hash_val) % HashModulus) ELSE hash_val % HashModulus,
        HashModulus)

\* (hash_val % 10000) / 10000
HashBucket(hash_val) == Rat(hash_val % HashModulus, HashModulus)

\* random.Random(seed).random(), the draw number `draws` + 1 of the stream
RandomValues == <<Rat(9, 10), Rat(1, 2), Rat(0, 1), Rat(1, 4)>>

Random(rng) == RandomValues[((2 * rng.seed + rng.draws) % Len(RandomValues)) + 1]

\* A variant of rand_val that draws from the generator whatever user_id is
rand_val_always_random(x, user_id) == Random(x.random)

\* A variant of rand_val that draws from one generator shared by the
\* instances (the module's random.random() in place of self._random)
RECURSIVE DrawsOfAll(_, _)
DrawsOfAll(xs, i) ==
    IF i > Len(xs) THEN 0 ELSE xs[i].random.draws + DrawsOfAll(xs, i + 1)

rand_val_shared_generator(x, user_id) ==
    IF user_id # None
    THEN HashBucket(Hash(hashKey, user_id \o x.name))
    ELSE Random([seed |-> x.random.seed, draws |-> DrawsOfAll(exps, 1)])

\* lines 93-99: the value that is bucketed
rand_val(x, user_id) ==
    IF user_id # None
    THEN HashBucket(Hash(hashKey, user_id \o x.name))
    ELSE Random(x.random)

\* lines 101-111: the index (from 1) of the variant the loop returns, or the
\* last one when the loop ends without returning
RECURSIVE SelectFrom(_, _, _, _, _)
SelectFrom(h, variants, value, cumulative_weight, i) ==
    IF i > Len(variants) THEN Len(variants)
    ELSE LET cumulative == RatAdd(cumulative_weight, h[variants[i]].weight)
         IN  IF RatLeq(value, cumulative) THEN i
             ELSE SelectFrom(h, variants, value, cumulative, i + 1)

\* A variant of the loop that compares with < in place of <=
RECURSIVE SelectFromStrict(_, _, _, _, _)
SelectFromStrict(h, variants, value, cumulative_weight, i) ==
    IF i > Len(variants) THEN Len(variants)
    ELSE LET cumulative == RatAdd(cumulative_weight, h[variants[i]].weight)
         IN  IF RatLt(value, cumulative) THEN i
             ELSE SelectFromStrict(h, variants, value, cumulative, i + 1)

SelectVariantStrict(h, variants, value) == SelectFromStrict(h, variants, value, Zero, 1)

\* A variant of the loop that falls back to the first variant
RECURSIVE SelectFromFallbackFirst(_, _, _, _, _)
SelectFromFallbackFirst(h, variants, value, cumulative_weight, i) ==
    IF i > Len(variants) THEN 1
    ELSE LET cumulative == RatAdd(cumulative_weight, h[variants[i]].weight)
         IN  IF RatLeq(value, cumulative) THEN i
             ELSE SelectFromFallbackFirst(h, variants, value, cumulative, i + 1)

SelectVariantFallbackFirst(h, variants, value) ==
    SelectFromFallbackFirst(h, variants, value, Zero, 1)

SelectVariant(h, variants, value) == SelectFrom(h, variants, value, Zero, 1)

\* A variant of generator_after in which every call takes a draw
generator_after_any_call(rng, user_id) == [rng EXCEPT !.draws = @ + 1]

\* lines 93-99: self._random after the call; only the else branch draws from it
generator_after(rng, user_id) ==
    IF user_id # None THEN rng ELSE [rng EXCEPT !.draws = @ + 1]

\* The weights of an experiment's variants, in list order
Weights(h, variants) == [i \in 1 .. Len(variants) |-> h[variants[i]].weight]

assign_variant(e, user_id) ==
    /\ Constructed(e)
    /\ LET x == exps[e]
           value == rand_val(x, user_id)
           index == SelectVariant(heap, x.variants, value)
           id == x.variants[index]
           key == <<user_id, x.name, Weights(heap, x.variants)>>
       IN  /\ assigned' = IF user_id = None \/ key \in DOMAIN assigned THEN assigned
                          ELSE [k \in DOMAIN assigned \cup {key} |->
                                  IF k = key THEN [exp |-> e, index |-> index]
                                  ELSE assigned[k]]
           /\ heap' = record_exposure(heap, id)
           /\ exps' = [exps EXCEPT ![e].random = generator_after(@, user_id)]
           /\ ret' = [op |-> "assign_variant", exp |-> e, user_id |-> user_id,
                      value |-> value, index |-> index, variant |-> id]
    /\ UNCHANGED hashKey

(***************************************************************************)
(* Experiment.record_conversion, get_variant, get_results                  *)
(***************************************************************************)
\* for variant in self.variants: if variant.name == variant_name: the index
\* (from 1) of the first match, 0 when the loop ends without one
RECURSIVE FindFrom(_, _, _, _)
FindFrom(h, variants, variant_name, i) ==
    IF i > Len(variants) THEN 0
    ELSE IF h[variants[i]].name = variant_name THEN i
    ELSE FindFrom(h, variants, variant_name, i + 1)

\* A variant of the lookup that returns the last match in place of the first
RECURSIVE FindLastFrom(_, _, _, _)
FindLastFrom(h, variants, variant_name, i) ==
    IF i = 0 THEN 0
    ELSE IF h[variants[i]].name = variant_name THEN i
    ELSE FindLastFrom(h, variants, variant_name, i - 1)

FindLastVariant(h, variants, variant_name) ==
    FindLastFrom(h, variants, variant_name, Len(variants))

FindVariant(h, variants, variant_name) == FindFrom(h, variants, variant_name, 1)

Experiment_record_conversion(e, variant_name) ==
    /\ Constructed(e)
    /\ LET x == exps[e]
           index == FindVariant(heap, x.variants, variant_name)
       IN  IF index = 0
           THEN /\ ret' = [op |-> "record_conversion", exp |-> e,
                           variant_name |-> variant_name, result |-> FALSE]
                /\ UNCHANGED heap
           ELSE /\ ConversionsLeft(heap)
                /\ heap' = record_conversion(heap, x.variants[index])
                /\ ret' = [op |-> "record_conversion", exp |-> e,
                           variant_name |-> variant_name, result |-> TRUE]
    /\ UNCHANGED <<exps, hashKey, assigned>>

\* Optional[Variant]: <<>> is None, <<id>> the object
get_variant(e, variant_name) ==
    /\ Constructed(e)
    /\ LET x == exps[e]
           index == FindVariant(heap, x.variants, variant_name)
       IN  ret' = [op |-> "get_variant", exp |-> e, variant_name |-> variant_name,
                   result |-> IF index = 0 THEN <<>> ELSE <<x.variants[index]>>]
    /\ UNCHANGED <<heap, exps, hashKey, assigned>>

\* results[variant.name] = {...}: a later variant of the same name overwrites
ResultsEntry(v) ==
    [exposures |-> v.exposures, conversions |-> v.conversions,
     conversion_rate |-> conversion_rate(v), weight |-> v.weight]

RECURSIVE ResultsFrom(_, _, _, _)
ResultsFrom(h, variants, results, i) ==
    IF i > Len(variants) THEN results
    ELSE LET v == h[variants[i]]
         IN  ResultsFrom(h, variants,
                         [n \in DOMAIN results \cup {v.name} |->
                             IF n = v.name THEN ResultsEntry(v) ELSE results[n]],
                         i + 1)

\* A variant of get_results in which the first variant of a name is kept
RECURSIVE ResultsKeepFirstFrom(_, _, _, _)
ResultsKeepFirstFrom(h, variants, results, i) ==
    IF i > Len(variants) THEN results
    ELSE LET v == h[variants[i]]
         IN  ResultsKeepFirstFrom(h, variants,
                         [n \in DOMAIN results \cup {v.name} |->
                             IF n \in DOMAIN results THEN results[n] ELSE ResultsEntry(v)],
                         i + 1)

ResultsKeepFirst(h, variants) == ResultsKeepFirstFrom(h, variants, <<>>, 1)

Results(h, variants) == ResultsFrom(h, variants, <<>>, 1)

get_results(e) ==
    /\ Constructed(e)
    /\ ret' = [op |-> "get_results", exp |-> e, results |-> Results(heap, exps[e].variants)]
    /\ UNCHANGED <<heap, exps, hashKey, assigned>>

(***************************************************************************)
(* The specification                                                       *)
(***************************************************************************)
\* One Experiment over two Variant objects that the caller made with any of
\* the weights; the second has the name of the first or the other name
Init ==
    /\ heap \in {<<Variant("control", w1), Variant(n2, w2)>> :
                    <<w1, n2, w2>> \in SuppliedWeights \X VariantNames \X SuppliedWeights}
    /\ exps = <<>>
    /\ hashKey \in HashKeys
    /\ ret = [op |-> None]
    /\ assigned = <<>>
    /\ history = <<>>

Assignments ==
    /\ ExposuresLeft(heap)
    /\ \E e \in ExpIds, user_id \in UserIds \cup {None} : assign_variant(e, user_id)
    /\ UNCHANGED history

Conversions ==
    /\ \E e \in ExpIds, variant_name \in LookupNames :
          Experiment_record_conversion(e, variant_name)
    /\ UNCHANGED history

Reads ==
    /\ \/ \E e \in ExpIds, variant_name \in LookupNames : get_variant(e, variant_name)
       \/ \E e \in ExpIds : get_results(e)
    /\ UNCHANGED history

Next ==
    \/ /\ Len(exps) < 1
       /\ \E name \in ExpNames, variants \in VariantLists, seed \in SeedArgs :
             Experiment(name, variants, seed)
       /\ UNCHANGED history
    \/ Assignments
    \/ Conversions
    \/ Reads

Spec == Init /\ [][Next]_vars

\* Two Experiments in one process.  The caller made two equal "control"
\* objects and two equal "treatment" objects; each Experiment is given one of
\* each, so that the two share both, one or none of their Variant objects.
PairLists == {<<c, t>> : c \in {1, 3}, t \in {2, 4}}

InitTwo ==
    /\ heap = <<Variant("control", Rat(3, 1)), Variant("treatment", Rat(1, 1)),
                Variant("control", Rat(3, 1)), Variant("treatment", Rat(1, 1))>>
    /\ exps = <<>>
    /\ hashKey \in HashKeys
    /\ ret = [op |-> None]
    /\ assigned = <<>>
    /\ history = <<>>

NextTwo ==
    \/ /\ Len(exps) < 2
       /\ \E name \in ExpNames, variants \in PairLists, seed \in SeedArgs :
             Experiment(name, variants, seed)
       /\ UNCHANGED history
    \/ Assignments

SpecTwo == InitTwo /\ [][NextTwo]_vars

\* Two Experiments in one process, and calls of assign_variant without user_id
\* on either; the history of each instance is kept
NamesOf(h, variants) == [i \in 1 .. Len(variants) |-> h[variants[i]].name]

Constructions ==
    /\ Len(exps) < 2
    /\ \E name \in ExpNames, variants \in PairLists, seed \in SeedArgs :
          Experiment(name, variants, seed)
    /\ history' = IF ret'.raised # None THEN history
                  ELSE Append(history, [seed |-> ret'.seed,
                                        names |-> NamesOf(heap, ret'.variants),
                                        supplied |-> Weights(heap, ret'.variants),
                                        returned |-> <<>>])

Draws ==
    \E e \in ExpIds :
        /\ Constructed(e)
        /\ exps[e].random.draws < MaxDraws
        /\ assign_variant(e, None)
        /\ history' = [history EXCEPT ![e].returned = Append(@, ret'.index)]

NextSeeded == Constructions \/ Draws

SpecSeeded == InitTwo /\ [][NextSeeded]_vars

\* Two Experiments constructed with a seed, each over its own control and
\* treatment objects, with calls of assign_variant that pass a user_id and
\* calls of record_conversion between the calls without user_id.  The calls
\* in between are counted from the counters they leave on the objects.
OwnPair(e) == <<2 * e - 1, 2 * e>>

SeededConstructions ==
    /\ Len(exps) < 2
    /\ \E name \in ExpNames, seed \in Seeds :
          Experiment(name, OwnPair(Len(exps) + 1), <<seed>>)
    /\ history' = IF ret'.raised # None THEN history
                  ELSE Append(history, [seed |-> ret'.seed,
                                        names |-> NamesOf(heap, ret'.variants),
                                        supplied |-> Weights(heap, ret'.variants),
                                        returned |-> <<>>])

InterleavedCalls(h, xs) ==
    SumOver([id \in DOMAIN h |-> h[id].exposures], DOMAIN h) - DrawsOfAll(xs, 1)
        + SumOver([id \in DOMAIN h |-> h[id].conversions], DOMAIN h)

KeyedAssignments ==
    /\ InterleavedCalls(heap, exps) < MaxInterleaved
    /\ \E e \in ExpIds, user_id \in UserIds : assign_variant(e, user_id)
    /\ UNCHANGED history

RecordedConversions ==
    /\ InterleavedCalls(heap, exps) < MaxInterleaved
    /\ \E e \in ExpIds, variant_name \in VariantNames :
          Experiment_record_conversion(e, variant_name)
    /\ UNCHANGED history

NextInterleaved == SeededConstructions \/ Draws \/ KeyedAssignments \/ RecordedConversions

SpecInterleaved == InitTwo /\ [][NextInterleaved]_vars

(***************************************************************************)
(* ab_testing/statistics.py: pure functions over Python floats.            *)
(*                                                                         *)
(* A float is a rational with a mantissa of MantissaBits bits (a double    *)
(* has 53), and every arithmetic operation rounds its exact result to the  *)
(* nearest such number, ties to the even mantissa, as IEEE 754 does.  The  *)
(* exponent is unbounded: no overflow and no underflow.                    *)
(***************************************************************************)
MantissaBits == 6
MaxCount == 4
MaxObservations == 3
MaxRows == 3

RECURSIVE Pow2(_)
Pow2(k) == IF k = 0 THEN 1 ELSE 2 * Pow2(k - 1)

\* a / d rounded to the nearest integer, ties to even (a >= 0, d > 0)
RoundHalfEven(a, d) ==
    LET q == a \div d
        r == a % d
    IN  IF 2 * r > d \/ (2 * r = d /\ q % 2 = 1) THEN q + 1 ELSE q

\* <<a * 2^i, d * 2^j>> with 2^(MantissaBits-1) <= (a * 2^i) / (d * 2^j) < 2^MantissaBits
RECURSIVE Scale(_, _)
Scale(a, d) ==
    IF a \div d >= Pow2(MantissaBits) THEN Scale(a, 2 * d)
    ELSE IF a \div d < Pow2(MantissaBits - 1) THEN Scale(2 * a, d)
    ELSE <<a, d>>

\* The float nearest to the rational x
Fl(x) ==
    IF x[1] = 0 THEN Zero
    ELSE LET a == Abs(x[1])
             s == Scale(a, x[2])
             m == RoundHalfEven(s[1], s[2])
             sign == IF x[1] < 0 THEN -1 ELSE 1
         IN  Rat(sign * m * (s[2] \div x[2]), s[1] \div a)

FAdd(x, y) == Fl(RatAdd(x, y))
FSub(x, y) == Fl(RatAdd(x, <<-y[1], y[2]>>))
FMul(x, y) == Fl(Rat(x[1] * y[1], x[2] * y[2]))
\* x / y for y # 0
FDiv(x, y) ==
    Fl(IF y[1] < 0 THEN Rat(-(x[1] * y[2]), x[2] * (-y[1]))
       ELSE Rat(x[1] * y[2], x[2] * y[1]))

\* float(n) of an int n of the model's range
Float(n) == Fl(<<n, 1>>)

\* <<a * 4^i, d * 4^j, 2^j, 2^i>> with 4^(MantissaBits-1) <= (a * 4^i) / (d * 4^j) < 4^MantissaBits
RECURSIVE SqrtScale(_, _, _, _)
SqrtScale(a, d, u, v) ==
    IF a \div d >= Pow2(2 * MantissaBits) THEN SqrtScale(a, 4 * d, 2 * u, v)
    ELSE IF a \div d < Pow2(2 * MantissaBits - 2) THEN SqrtScale(4 * a, d, u, 2 * v)
    ELSE <<a, d, u, v>>

\* math.sqrt(x) for x >= 0: the float nearest to the square root
FSqrt(x) ==
    IF x[1] = 0 THEN Zero
    ELSE LET s == SqrtScale(x[1], x[2], 1, 1)
             m0 == CHOOSE m \in Pow2(MantissaBits - 1) .. Pow2(MantissaBits) :
                      m * m * s[2] <= s[1] /\ s[1] < (m + 1) * (m + 1) * s[2]
             half == (2 * m0 + 1) * (2 * m0 + 1) * s[2]
             m == IF half < 4 * s[1] \/ (half = 4 * s[1] /\ m0 % 2 = 1)
                  THEN m0 + 1 ELSE m0
         IN  Rat(m * s[3], s[4])

RatMax(x, y) == IF RatLt(x, y) THEN y ELSE x
RatMin(x, y) == IF RatLt(y, x) THEN y ELSE x

RatAbs(x) == <<Abs(x[1]), x[2]>>

\* scipy.stats.norm.cdf: the standard normal distribution function, read off
\* a table of its values (in 1/10000) at 0, 1/4, 2/4, ..., 4: the value at the
\* greatest table point not above |x|, and 1 - that for x < 0
CdfTable == <<5000, 5987, 6915, 7734, 8413, 8944, 9332, 9599, 9772,
              9878, 9938, 9970, 9987, 9994, 9998, 9999, 10000>>

NormCdf(x) ==
    LET quarters == (4 * Abs(x[1])) \div x[2]
        k == IF quarters >= Len(CdfTable) THEN Len(CdfTable) ELSE quarters + 1
    IN  IF x[1] >= 0 THEN Fl(Rat(CdfTable[k], 10000))
        ELSE Fl(Rat(10000 - CdfTable[k], 10000))

\* scipy.stats.norm.ppf: the quantile function, read off a table of its
\* values (in 1/10000) at 1/2, 3/4, 7/8, 15/16 and 31/32: the value at the
\* greatest table point not above q, for 1/2 <= q < 1
PpfPoints == <<Rat(1, 2), Rat(3, 4), Rat(7, 8), Rat(15, 16), Rat(31, 32)>>
PpfTable == <<0, 6745, 11503, 15341, 18627>>

PpfUpper(q) ==
    LET below == {i \in 1 .. Len(PpfPoints) : RatLeq(PpfPoints[i], q)}
        k == CHOOSE i \in below : \A j \in below : j <= i
    IN  Fl(Rat(PpfTable[k], 10000))

\* for 0 < q < 1; below 1/2 the quantile is minus the quantile at 1 - q
NormPpf(q) ==
    IF RatLeq(Rat(1, 2), q) THEN PpfUpper(q)
    ELSE LET upper == PpfUpper(RatAdd(One, <<-q[1], q[2]>>))
         IN  <<-upper[1], upper[2]>>

NoResult == <<>>

(***************************************************************************)
(* z_test_proportions                                                      *)
(***************************************************************************)
\* A variant of the validation that lets exposures of 0 pass
NegativeExposures(exposures_a, exposures_b) == exposures_a < 0 \/ exposures_b < 0

\* line 38: exposures_a <= 0 or exposures_b <= 0
NonPositiveExposures(exposures_a, exposures_b) == exposures_a <= 0 \/ exposures_b <= 0

\* A variant of the test of the standard error that never holds
SeNeverZero(se) == FALSE

\* line 51: se == 0
SeIsZero(se) == se = Zero

\* A variant of the p-value that is one-tailed whatever two_tailed is
PValueOneTailed(z_score, two_tailed) == FSub(One, NormCdf(z_score))

\* lines 58-61
PValue(z_score, two_tailed) ==
    IF two_tailed
    THEN FMul(Float(2), FSub(One, NormCdf(RatAbs(z_score))))
    ELSE FSub(One, NormCdf(z_score))

\* The outcome of a call: the exception it raised or None, the number of
\* divisions evaluated before it ended, and the value it returned
Outcome(raised, divisions, result) ==
    [raised |-> raised, divisions |-> divisions, result |-> result]

z_test_proportions(conversions_a, exposures_a, conversions_b, exposures_b, two_tailed) ==
    IF NonPositiveExposures(exposures_a, exposures_b)
    THEN Outcome("Exposures must be positive", 0, NoResult)
    ELSE IF exposures_a = 0 THEN Outcome("ZeroDivisionError", 1, NoResult)
    ELSE IF exposures_b = 0 THEN Outcome("ZeroDivisionError", 2, NoResult)
    ELSE IF exposures_a + exposures_b = 0 THEN Outcome("ZeroDivisionError", 3, NoResult)
    ELSE LET p_a == FDiv(Float(conversions_a), Float(exposures_a))
             p_b == FDiv(Float(conversions_b), Float(exposures_b))
             p_pooled == FDiv(Float(conversions_a + conversions_b),
                              Float(exposures_a + exposures_b))
             variance == FMul(FMul(p_pooled, FSub(One, p_pooled)),
                              FAdd(FDiv(One, Float(exposures_a)),
                                   FDiv(One, Float(exposures_b))))
         IN  IF RatLt(variance, Zero) THEN Outcome("math domain error", 5, NoResult)
             ELSE LET se == FSqrt(variance)
                  IN  IF SeIsZero(se) THEN Outcome(None, 5, <<Zero, One, Zero>>)
                      ELSE IF se = Zero THEN Outcome("ZeroDivisionError", 6, NoResult)
                      ELSE LET z_score == FDiv(FSub(p_a, p_b), se)
                           IN  Outcome(None, 6, <<z_score, PValue(z_score, two_tailed), se>>)

(***************************************************************************)
(* calculate_confidence_interval                                           *)
(***************************************************************************)
\* A variant of the validation that refuses conversions = exposures
ConversionsNotBelow(conversions, exposures) ==
    conversions < 0 \/ conversions >= exposures

\* line 202: conversions < 0 or conversions > exposures
ConversionsOutOfRange(conversions, exposures) ==
    conversions < 0 \/ conversions > exposures

\* lines 207-219, for inputs that passed the validations
WilsonInterval(conversions, exposures, confidence_level) ==
    LET p == FDiv(Float(conversions), Float(exposures))
        n == Float(exposures)
        z == NormPpf(FSub(One, FDiv(FSub(One, confidence_level), Float(2))))
        z_squared == FMul(z, z)
        denominator == FAdd(One, FDiv(z_squared, n))
        center == FDiv(FAdd(p, FDiv(z_squared, Float(2 * exposures))), denominator)
        radicand == FAdd(FDiv(FMul(p, FSub(One, p)), n),
                         FDiv(z_squared, Float(4 * exposures * exposures)))
    IN  IF RatLt(radicand, Zero) THEN Outcome("math domain error", 6, NoResult)
        ELSE LET margin == FDiv(FMul(z, FSqrt(radicand)), denominator)
                 lower == RatMax(Zero, FSub(center, margin))
                 upper == RatMin(One, FAdd(center, margin))
             IN  Outcome(None, 8, <<lower, upper>>)

calculate_confidence_interval(conversions, exposures, confidence_level) ==
    IF exposures <= 0
    THEN Outcome("Exposures must be positive", 0, NoResult)
    ELSE IF ConversionsOutOfRange(conversions, exposures)
    THEN Outcome("Conversions must be between 0 and exposures", 0, NoResult)
    ELSE IF ~(RatLt(Zero, confidence_level) /\ RatLt(confidence_level, One))
    THEN Outcome("Confidence level must be between 0 and 1", 0, NoResult)
    ELSE WilsonInterval(conversions, exposures, confidence_level)

(***************************************************************************)
(* is_statistically_significant                                            *)
(***************************************************************************)
\* A variant of the comparison that counts p_value = alpha as significant
significant_at_boundary(p_value, alpha) == RatLeq(p_value, alpha)

\* line 259: p_value < alpha
is_statistically_significant(p_value, alpha) == RatLt(p_value, alpha)

(***************************************************************************)
(* t_test_means, chi_square_test                                           *)
(***************************************************************************)
\* A call of a library function, which the model leaves uninterpreted
Library(function, args) == [library |-> function, args |-> args]

\* A variant of the validation that fails only when both samples are small
BothSamplesSmall(values_a, values_b) == Len(values_a) < 2 /\ Len(values_b) < 2

\* line 87: len(values_a) < 2 or len(values_b) < 2
SampleTooSmall(values_a, values_b) == Len(values_a) < 2 \/ Len(values_b) < 2

t_test_means(values_a, values_b, equal_var) ==
    IF SampleTooSmall(values_a, values_b)
    THEN Outcome("Each sample must have at least 2 values", 0, NoResult)
    ELSE Outcome(None, 0, <<Library("stats.ttest_ind", <<values_a, values_b, equal_var>>)>>)

\* A variant of the validation that counts the rows only
FewRows(contingency_table) == Len(contingency_table) < 2

\* line 113: len(contingency_table) < 2 or len(contingency_table[0]) < 2; the
\* first row is read only when there are 2 rows or more
TableTooSmall(contingency_table) ==
    IF Len(contingency_table) < 2 THEN TRUE ELSE Len(contingency_table[1]) < 2

chi_square_test(contingency_table) ==
    IF TableTooSmall(contingency_table)
    THEN Outcome("Contingency table must be at least 2x2", 0, NoResult)
    ELSE Outcome(None, 0, <<Library("stats.chi2_contingency", <<contingency_table>>)>>)

(***************************************************************************)
(* calculate_sample_size                                                   *)
(***************************************************************************)
\* math.ceil of a rational
Ceil(x) == -((-x[1]) \div x[2])

\* lines 159-177, for inputs that passed the validations
SampleSize(p1, p2, alpha, power, two_tailed) ==
    LET level == IF two_tailed THEN FSub(One, FDiv(alpha, Float(2)))
                 ELSE FSub(One, alpha)
        z_beta == NormPpf(power)
        p_avg == FDiv(FAdd(p1, p2), Float(2))
        pooled == FMul(FMul(Float(2), p_avg), FSub(One, p_avg))
        unpooled == FAdd(FMul(p1, FSub(One, p1)), FMul(p2, FSub(One, p2)))
        difference == FSub(p2, p1)
        denominator == FMul(difference, difference)
    IN  IF RatLt(pooled, Zero) \/ RatLt(unpooled, Zero)
        THEN Outcome("math domain error", 2, NoResult)
        ELSE IF denominator = Zero THEN Outcome("ZeroDivisionError", 3, NoResult)
        \* stats.norm.ppf(1.0) is inf, and so are numerator and n
        ELSE IF level = One THEN Outcome("OverflowError", 3, NoResult)
        ELSE LET z_alpha == NormPpf(level)
                 root == FAdd(FMul(z_alpha, FSqrt(pooled)), FMul(z_beta, FSqrt(unpooled)))
                 numerator == FMul(root, root)
                 n == FDiv(numerator, denominator)
             IN  Outcome(None, 3, <<Ceil(n)>>)

\* line 155: treatment_rate >= 1
TreatmentRateTooHigh(treatment_rate) == RatLeq(One, treatment_rate)

calculate_sample_size(baseline_rate, minimum_detectable_effect, alpha, power, two_tailed) ==
    IF ~(RatLt(Zero, baseline_rate) /\ RatLt(baseline_rate, One))
    THEN Outcome("Baseline rate must be between 0 and 1", 0, NoResult)
    ELSE IF RatLeq(minimum_detectable_effect, Zero)
    THEN Outcome("Minimum detectable effect must be positive", 0, NoResult)
    ELSE IF ~(RatLt(Zero, alpha) /\ RatLt(alpha, One))
    THEN Outcome("Alpha must be between 0 and 1", 0, NoResult)
    ELSE IF ~(RatLt(Zero, power) /\ RatLt(power, One))
    THEN Outcome("Power must be between 0 and 1", 0, NoResult)
    ELSE LET treatment_rate == FMul(baseline_rate, FAdd(One, minimum_detectable_effect))
         IN  IF TreatmentRateTooHigh(treatment_rate)
             THEN Outcome("Treatment rate would exceed 1", 0, NoResult)
             ELSE SampleSize(baseline_rate, treatment_rate, alpha, power, two_tailed)

(***************************************************************************)
(* calculate_relative_uplift                                               *)
(***************************************************************************)
\* A variant of the quotient that returns the absolute difference
AbsoluteUplift(control_rate, treatment_rate) == FSub(treatment_rate, control_rate)

\* line 243: (treatment_rate - control_rate) / control_rate
RelativeUplift(control_rate, treatment_rate) ==
    FDiv(FSub(treatment_rate, control_rate), control_rate)

calculate_relative_uplift(control_rate, treatment_rate) ==
    IF control_rate = Zero
    THEN Outcome("Control rate cannot be zero", 0, NoResult)
    ELSE Outcome(None, 1, <<RelativeUplift(control_rate, treatment_rate)>>)

(***************************************************************************)
(* The specification of the statistics functions: one call, whose          *)
(* arguments are drawn in the initial state.                               *)
(***************************************************************************)
Counts == -1 .. MaxCount
Probabilities == {Fl(x) : x \in {Rat(0, 1), Rat(1, 100), Rat(1, 20), Rat(1, 10), Rat(1, 2), Rat(1, 1)}}
ConfidenceLevels ==
    {Rat(-1, 2), Rat(0, 1), Rat(1, 2), Rat(3, 4), Rat(7, 8), Rat(15, 16), Rat(1, 1), Rat(3, 2)}

\* Samples of 0 to MaxObservations values, and tables of 0 to MaxRows rows of 0
\* to MaxRows cells (the rows of a list of lists need not be equally long)
Samples == UNION {[1 .. n -> {1, 2}] : n \in 0 .. MaxObservations}
Rows == UNION {[1 .. n -> {10}] : n \in 0 .. MaxRows}
Tables == UNION {[1 .. n -> Rows] : n \in 0 .. MaxRows}
BaselineRates == {Fl(x) : x \in {Rat(0, 1), Rat(1, 64), Rat(1, 10), Rat(1, 2), Rat(1, 1)}}
Effects ==
    {Fl(x) : x \in {Rat(-1, 10), Rat(0, 1), Rat(1, 10), Rat(1, 2), Rat(1, 1), Rat(2, 1),
                    Rat(8, 1), Rat(62, 1)}}
Alphas == {Rat(0, 1), Rat(1, 64), Rat(1, 16), Rat(1, 4), Rat(1, 2), Rat(1, 1)}
Powers == {Rat(0, 1), Rat(1, 32), Rat(1, 4), Rat(1, 2), Fl(Rat(4, 5)), Rat(1, 1)}
Rates ==
    {Fl(x) : x \in {Rat(-1, 10), Rat(0, 1), Rat(2, 25), Rat(1, 10), Rat(3, 25), Rat(1, 2),
                    Rat(1, 1)}}

Call(function, args) == [op |-> "call", function |-> function, args |-> args]

InitStatistics ==
    /\ heap = <<>> /\ exps = <<>> /\ hashKey = 0 /\ assigned = <<>> /\ history = <<>>
    /\ \/ \E ca \in Counts, ea \in Counts, cb \in Counts, eb \in Counts, tt \in BOOLEAN :
             ret = Call("z_test_proportions",
                        [conversions_a |-> ca, exposures_a |-> ea,
                         conversions_b |-> cb, exposures_b |-> eb, two_tailed |-> tt])
       \/ \E c \in Counts, e \in Counts, level \in ConfidenceLevels :
             ret = Call("calculate_confidence_interval",
                        [conversions |-> c, exposures |-> e, confidence_level |-> level])
       \/ \E p \in Probabilities, a \in Probabilities :
             ret = Call("is_statistically_significant", [p_value |-> p, alpha |-> a])
       \/ \E a \in Samples, b \in Samples, equal_var \in BOOLEAN :
             ret = Call("t_test_means", [values_a |-> a, values_b |-> b, equal_var |-> equal_var])
       \/ \E table \in Tables :
             ret = Call("chi_square_test", [contingency_table |-> table])
       \/ \E b \in BaselineRates, effect \in Effects, a \in Alphas, p \in Powers, tt \in BOOLEAN :
             ret = Call("calculate_sample_size",
                        [baseline_rate |-> b, minimum_detectable_effect |-> effect,
                         alpha |-> a, power |-> p, two_tailed |-> tt])
       \/ \E c \in Rates, t \in Rates :
             ret = Call("calculate_relative_uplift", [control_rate |-> c, treatment_rate |-> t])

Returned(function, out) == [op |-> function, args |-> ret.args, out |-> out]

Apply_z_test_proportions ==
    /\ ret.op = "call" /\ ret.function = "z_test_proportions"
    /\ ret' = Returned("z_test_proportions",
                       z_test_proportions(ret.args.conversions_a, ret.args.exposures_a,
                                          ret.args.conversions_b, ret.args.exposures_b,
                                          ret.args.two_tailed))
    /\ UNCHANGED <<heap, exps, hashKey, assigned, history>>

Apply_calculate_confidence_interval ==
    /\ ret.op = "call" /\ ret.function = "calculate_confidence_interval"
    /\ ret' = Returned("calculate_confidence_interval",
                       calculate_confidence_interval(ret.args.conversions, ret.args.exposures,
                                                     ret.args.confidence_level))
    /\ UNCHANGED <<heap, exps, hashKey, assigned, history>>

Apply_is_statistically_significant ==
    /\ ret.op = "call" /\ ret.function = "is_statistically_significant"
    /\ ret' = Returned("is_statistically_significant",
                       is_statistically_significant(ret.args.p_value, ret.args.alpha))
    /\ UNCHANGED <<heap, exps, hashKey, assigned, history>>

Apply_t_test_means ==
    /\ ret.op = "call" /\ ret.function = "t_test_means"
    /\ ret' = Returned("t_test_means",
                       t_test_means(ret.args.values_a, ret.args.values_b, ret.args.equal_var))
    /\ UNCHANGED <<heap, exps, hashKey, assigned, history>>

Apply_chi_square_test ==
    /\ ret.op = "call" /\ ret.function = "chi_square_test"
    /\ ret' = Returned("chi_square_test", chi_square_test(ret.args.contingency_table))
    /\ UNCHANGED <<heap, exps, hashKey, assigned, history>>

Apply_calculate_sample_size ==
    /\ ret.op = "call" /\ ret.function = "calculate_sample_size"
    /\ ret' = Returned("calculate_sample_size",
                       calculate_sample_size(ret.args.baseline_rate,
                                             ret.args.minimum_detectable_effect,
                                             ret.args.alpha, ret.args.power,
                                             ret.args.two_tailed))
    /\ UNCHANGED <<heap, exps, hashKey, assigned, history>>

Apply_calculate_relative_uplift ==
    /\ ret.op = "call" /\ ret.function = "calculate_relative_uplift"
    /\ ret' = Returned("calculate_relative_uplift",
                       calculate_relative_uplift(ret.args.control_rate,
                                                 ret.args.treatment_rate))
    /\ UNCHANGED <<heap, exps, hashKey, assigned, history>>

NextStatistics ==
    \/ Apply_z_test_proportions
    \/ Apply_calculate_confidence_interval
    \/ Apply_is_statistically_significant
    \/ Apply_t_test_means
    \/ Apply_chi_square_test
    \/ Apply_calculate_sample_size
    \/ Apply_calculate_relative_uplift

SpecStatistics == InitStatistics /\ [][NextStatistics]_vars

(***************************************************************************)
(* Notions the properties are stated with                                  *)
(***************************************************************************)
\* The sum of the first n elements of a sequence of rationals
RECURSIVE PrefixSum(_, _)
PrefixSum(w, n) == IF n = 0 THEN Zero ELSE RatAdd(PrefixSum(w, n - 1), w[n])

SumSeq(w) == PrefixSum(w, Len(w))

\* The least element of a non-empty set of integers
Least(S) == CHOOSE i \in S : \A j \in S : i <= j

\* The positions whose cumulative weight is at least the value
Reached(w, value) == {i \in 1 .. Len(w) : RatLeq(value, PrefixSum(w, i))}

IsAssign == ret.op = "assign_variant"

\* A list of pairwise distinct Variant objects
DistinctObjects(variants) ==
    \A i, j \in 1 .. Len(variants) : variants[i] = variants[j] => i = j

\* A list of Variant objects with pairwise distinct names
DistinctNames(h, variants) ==
    \A i, j \in 1 .. Len(variants) : h[variants[i]].name = h[variants[j]].name => i = j

\* A list of Variant objects whose weights are all above 0
PositiveWeights(h, variants) ==
    \A i \in 1 .. Len(variants) : RatLt(Zero, h[variants[i]].weight)

(***************************************************************************)
(* C1: a call of assign_variant that gives a user_id returns the variant   *)
(* (its position in the list) that the first call with the same user_id,   *)
(* experiment name and weights in list order returned, whichever instance  *)
(* that call was made on and whatever the counters and the generators'     *)
(* states are.                                                             *)
(***************************************************************************)
C1_Key == <<ret.user_id, exps[ret.exp].name, Weights(heap, exps[ret.exp].variants)>>

C1_DeterministicAssignment ==
    (IsAssign /\ ret.user_id # None) =>
        /\ C1_Key \in DOMAIN assigned
        /\ assigned[C1_Key].index = ret.index

\* A repeated call with the same key on the other instance, whose generator
\* has another seed
C1_Witness ==
    /\ IsAssign /\ ret.user_id # None
    /\ C1_Key \in DOMAIN assigned
    /\ assigned[C1_Key].exp # ret.exp
    /\ exps[1].random.seed # exps[2].random.seed
    /\ exps[1].variants # exps[2].variants

(***************************************************************************)
(* C2: where some variant's cumulative weight is at least the value that   *)
(* assign_variant buckets, the call returns the first such variant in list *)
(* order; a value equal to a boundary is in the earlier bucket.            *)
(***************************************************************************)
C2_FirstBucket ==
    IsAssign =>
        LET w == Weights(heap, exps[ret.exp].variants)
        IN  Reached(w, ret.value) # {} => ret.index = Least(Reached(w, ret.value))

\* The value is exactly the first boundary, and the first variant is returned
C2_Witness ==
    /\ IsAssign
    /\ LET w == Weights(heap, exps[ret.exp].variants)
       IN  /\ exps[ret.exp].variants[1] # exps[ret.exp].variants[2]
           /\ ret.value = w[1]
           /\ RatLt(Zero, w[2])
           /\ ret.index = 1

(***************************************************************************)
(* C3: a call of assign_variant, with or without a user_id, adds 1 to the  *)
(* exposures of the variant it returns and changes nothing else of any     *)
(* Variant object (no other exposures, no conversions, weight or name),    *)
(* and no experiment's list of variants.                                   *)
(***************************************************************************)
NamesAndLists(xs) == [e \in DOMAIN xs |-> <<xs[e].name, xs[e].variants>>]

C3_AssignFrame ==
    [][ret'.op = "assign_variant" =>
          /\ ret'.variant = exps[ret'.exp].variants[ret'.index]
          /\ heap'[ret'.variant].exposures = heap[ret'.variant].exposures + 1
          /\ \A id \in DOMAIN heap :
                /\ id # ret'.variant => heap'[id].exposures = heap[id].exposures
                /\ heap'[id].conversions = heap[id].conversions
                /\ heap'[id].weight = heap[id].weight
                /\ heap'[id].name = heap[id].name
          /\ NamesAndLists(exps') = NamesAndLists(exps)]_vars

\* A call without user_id has returned the second of two distinct objects,
\* after a conversion was recorded
C3_Witness ==
    /\ IsAssign /\ ret.user_id = None /\ ret.index = 2
    /\ exps[ret.exp].variants[1] # ret.variant
    /\ heap[ret.variant].exposures = 1
    /\ \E id \in DOMAIN heap : heap[id].conversions > 0

(***************************************************************************)
(* C4: record_conversion(variant_name) adds 1 to the conversions of the    *)
(* first variant in list order that has the name, changes nothing else and *)
(* returns true; with no variant of that name it returns false and changes *)
(* nothing.                                                                *)
(***************************************************************************)
Named(h, variants, variant_name) ==
    {i \in 1 .. Len(variants) : h[variants[i]].name = variant_name}

C4_RecordConversion ==
    [][ret'.op = "record_conversion" =>
          LET variants == exps[ret'.exp].variants
              matches == Named(heap, variants, ret'.variant_name)
          IN  /\ exps' = exps
              /\ IF matches = {}
                 THEN ret'.result = FALSE /\ heap' = heap
                 ELSE /\ ret'.result = TRUE
                      /\ heap' = [heap EXCEPT ![variants[Least(matches)]].conversions = @ + 1]]_vars

\* Two distinct objects have the name: the first has the conversion, the
\* second has none
C4_Witness ==
    /\ ret.op = "record_conversion" /\ ret.result = TRUE
    /\ LET variants == exps[ret.exp].variants
       IN  /\ variants[1] # variants[2]
           /\ heap[variants[1]].name = ret.variant_name
           /\ heap[variants[2]].name = ret.variant_name
           /\ heap[variants[1]].conversions = 1
           /\ heap[variants[2]].conversions = 0

(***************************************************************************)
(* C5: the construction of an Experiment raises, and no instance is made,  *)
(* whenever fewer than 2 variants are supplied and whenever the supplied   *)
(* weights sum to 0 or less.                                               *)
(***************************************************************************)
C5_ConstructionFails ==
    [][ret'.op = "Experiment" =>
          LET supplied == Weights(heap, ret'.variants)
          IN  (Len(ret'.variants) < 2 \/ RatLeq(SumSeq(supplied), Zero)) =>
                 (ret'.raised # None /\ exps' = exps)]_vars

\* Two variants whose weights sum to exactly 0 were refused
C5_Witness ==
    /\ ret.op = "Experiment" /\ ret.raised = "Total weight must be positive"
    /\ Len(ret.variants) = 2
    /\ SumSeq(Weights(heap, ret.variants)) = Zero
    /\ exps = <<>>

(***************************************************************************)
(* C6: after a successful construction each variant's weight is its        *)
(* supplied weight divided by the sum of the supplied weights, the weights *)
(* of the experiment sum to 1, and assign_variant, record_conversion,      *)
(* get_variant and get_results leave the weights as they are.  (Stated for *)
(* supplied weights that are all above 0.)                                 *)
(***************************************************************************)
C6_WeightsNormalized ==
    [][/\ (ret'.op = "Experiment" /\ ret'.raised = None
           /\ PositiveWeights(heap, ret'.variants)) =>
             LET supplied == Weights(heap, ret'.variants)
                 normalized == Weights(heap', ret'.variants)
             IN  /\ \A i \in 1 .. Len(supplied) :
                        normalized[i] = RatDiv(supplied[i], SumSeq(supplied))
                 /\ SumSeq(normalized) = One
       /\ ret'.op \in {"assign_variant", "record_conversion", "get_variant", "get_results"} =>
             \A id \in DOMAIN heap : heap'[id].weight = heap[id].weight]_vars

(***************************************************************************)
(* C7: after a successful construction every variant of the experiment has *)
(* a weight above 0.  (Stated for lists of pairwise distinct objects with   *)
(* distinct names.)                                                        *)
(***************************************************************************)
C7_WeightsPositive ==
    (/\ ret.op = "Experiment" /\ ret.raised = None
     /\ DistinctObjects(ret.variants)
     /\ DistinctNames(heap, ret.variants)) =>
        \A i \in 1 .. Len(ret.variants) : RatLt(Zero, heap[ret.variants[i]].weight)

(***************************************************************************)
(* C8: in every state reached by calls of assign_variant and               *)
(* record_conversion, every variant's conversion_rate is between 0 and 1.  *)
(* (Stated for experiments of pairwise distinct objects with distinct      *)
(* names and weights above 0.)                                             *)
(***************************************************************************)
C8_RateInUnitInterval ==
    \A e \in DOMAIN exps :
        (/\ DistinctObjects(exps[e].variants)
         /\ DistinctNames(heap, exps[e].variants)
         /\ PositiveWeights(heap, exps[e].variants)) =>
            \A i \in 1 .. Len(exps[e].variants) :
                LET rate == conversion_rate(heap[exps[e].variants[i]])
                IN  RatLeq(Zero, rate) /\ RatLeq(rate, One)

(***************************************************************************)
(* C9: the conversion_rate that get_results reports for a variant is       *)
(* conversions / exposures when exposures is above 0 (the rate times the   *)
(* exposures is the conversions), and 0 when exposures is 0, whatever the  *)
(* conversions are.                                                        *)
(***************************************************************************)
C9_ConversionRate ==
    ret.op = "get_results" =>
        \A n \in DOMAIN ret.results :
            LET entry == ret.results[n]
                rate == entry.conversion_rate
            IN  /\ entry.exposures > 0 =>
                      rate[2] > 0 /\ rate[1] * entry.exposures = entry.conversions * rate[2]
                /\ entry.exposures = 0 => rate = Zero

\* One variant with conversions and no exposure, another with conversions
\* and exposures
C9_Witness ==
    /\ ret.op = "get_results"
    /\ \E n \in DOMAIN ret.results :
          ret.results[n].exposures = 0 /\ ret.results[n].conversions > 0
    /\ \E n \in DOMAIN ret.results :
          ret.results[n].exposures = 2 /\ ret.results[n].conversions = 1

(***************************************************************************)
(* C10 as stated: get_results has one entry per variant name, the entry of *)
(* every variant's name holds that variant's exposures, conversions,       *)
(* conversion_rate and weight, and the call changes nothing.  (Stated for  *)
(* experiments of pairwise distinct objects with weights above 0.)         *)
(***************************************************************************)
EntryOf(v) ==
    [exposures |-> v.exposures, conversions |-> v.conversions,
     conversion_rate |-> IF v.exposures = 0 THEN Zero
                         ELSE RatDiv(<<v.conversions, 1>>, <<v.exposures, 1>>),
     weight |-> v.weight]

C10_EveryVariantReported ==
    (/\ ret.op = "get_results"
     /\ DistinctObjects(exps[ret.exp].variants)
     /\ PositiveWeights(heap, exps[ret.exp].variants)) =>
        LET variants == exps[ret.exp].variants
        IN  /\ DOMAIN ret.results = {heap[variants[i]].name : i \in 1 .. Len(variants)}
            /\ \A i \in 1 .. Len(variants) :
                  ret.results[heap[variants[i]].name] = EntryOf(heap[variants[i]])

(***************************************************************************)
(* C10, amended: get_results has one entry per variant name, the entry of  *)
(* a name holds the exposures, conversions, conversion_rate and weight of  *)
(* the LAST variant in list order that has the name, and the call changes  *)
(* no Variant object and no experiment.                                    *)
(***************************************************************************)
Greatest(S) == CHOOSE i \in S : \A j \in S : j <= i

C10_LastVariantReported ==
    [][ret'.op = "get_results" =>
          LET variants == exps[ret'.exp].variants
          IN  /\ heap' = heap /\ exps' = exps
              /\ DOMAIN ret'.results = {heap[variants[i]].name : i \in 1 .. Len(variants)}
              /\ \A n \in DOMAIN ret'.results :
                    ret'.results[n] =
                       EntryOf(heap[variants[Greatest(Named(heap, variants, n))]])]_vars

\* Two distinct objects of one name with different counters: the entry is
\* the second one's
C10_Witness ==
    /\ ret.op = "get_results"
    /\ LET variants == exps[ret.exp].variants
       IN  /\ variants[1] # variants[2]
           /\ heap[variants[1]].name = heap[variants[2]].name
           /\ heap[variants[1]].conversions = 1
           /\ heap[variants[2]].conversions = 0
           /\ ret.results[heap[variants[1]].name].conversions = 0

(***************************************************************************)
(* C11: get_variant(variant_name) returns the first variant in list order  *)
(* that has the name, returns None exactly when no variant of the          *)
(* experiment has the name, and changes no Variant object, no experiment   *)
(* and no generator.                                                       *)
(***************************************************************************)
C11_GetVariant ==
    [][ret'.op = "get_variant" =>
          LET variants == exps[ret'.exp].variants
              matches == Named(heap, variants, ret'.variant_name)
          IN  /\ heap' = heap /\ exps' = exps /\ hashKey' = hashKey
              /\ (ret'.result = <<>>) <=> (matches = {})
              /\ matches # {} => ret'.result = <<variants[Least(matches)]>>]_vars

\* Two distinct objects have the name, the first of which has a conversion:
\* the first is returned
C11_Witness ==
    /\ ret.op = "get_variant"
    /\ LET variants == exps[ret.exp].variants
       IN  /\ variants[1] # variants[2]
           /\ heap[variants[1]].name = ret.variant_name
           /\ heap[variants[2]].name = ret.variant_name
           /\ heap[variants[1]].conversions = 1
           /\ ret.result = <<variants[1]>>

(***************************************************************************)
(* C13: an Experiment owns its variants exclusively: no construction of    *)
(* another instance and no assign_variant or record_conversion on another  *)
(* instance changes the weights, exposures or conversions seen through an  *)
(* instance.                                                               *)
(***************************************************************************)
Observed(h, variants) ==
    [i \in 1 .. Len(variants) |->
        <<h[variants[i]].weight, h[variants[i]].exposures, h[variants[i]].conversions>>]

C13_ExclusiveOwnership ==
    [][\A o \in DOMAIN exps :
          (\/ ret'.op = "Experiment"
           \/ (ret'.op \in {"assign_variant", "record_conversion"} /\ ret'.exp # o)) =>
             Observed(heap', exps[o].variants) = Observed(heap, exps[o].variants)]_vars

(***************************************************************************)
(* C14: in every step each Variant object's exposures and conversions are  *)
(* natural numbers that do not decrease; exposures change only in          *)
(* assign_variant and conversions only in record_conversion; and the list  *)
(* of variants of a constructed Experiment (its length, its order, the     *)
(* variants' names) stays as it is.                                        *)
(***************************************************************************)
C14_CountersAndList ==
    [][/\ \A id \in DOMAIN heap :
             /\ heap'[id].exposures \in Nat /\ heap'[id].conversions \in Nat
             /\ heap'[id].exposures >= heap[id].exposures
             /\ heap'[id].conversions >= heap[id].conversions
             /\ heap'[id].exposures # heap[id].exposures => ret'.op = "assign_variant"
             /\ heap'[id].conversions # heap[id].conversions => ret'.op = "record_conversion"
       /\ \A e \in DOMAIN exps :
             /\ exps'[e].variants = exps[e].variants
             /\ NamesOf(heap', exps'[e].variants) = NamesOf(heap, exps[e].variants)]_vars

\* Both counters of one variant have grown, and the list is read afterwards
C14_Witness ==
    /\ ret.op = "get_results"
    /\ \E i \in 1 .. Len(exps[ret.exp].variants) :
          LET v == heap[exps[ret.exp].variants[i]]
          IN  v.exposures = 2 /\ v.conversions = 1

(***************************************************************************)
(* C12: two Experiments constructed with the same seed and the same        *)
(* variant configuration (names and weights in list order) have returned   *)
(* the same variant in their k-th call of assign_variant without user_id,  *)
(* for every k that both have reached.                                     *)
(***************************************************************************)
SameSeedAndConfiguration(a, b) ==
    /\ history[a].seed # <<>>
    /\ history[a].seed = history[b].seed
    /\ history[a].names = history[b].names
    /\ history[a].supplied = history[b].supplied

C12_SeededSequences ==
    \A a, b \in DOMAIN history :
        SameSeedAndConfiguration(a, b) =>
            \A k \in 1 .. Len(history[a].returned) :
                k <= Len(history[b].returned) =>
                    history[a].returned[k] = history[b].returned[k]

\* Two instances over different objects, same seed and configuration, have
\* both made two calls, which returned different variants
C12_Witness ==
    /\ Len(history) = 2
    /\ SameSeedAndConfiguration(1, 2)
    /\ exps[1].variants # exps[2].variants
    /\ Len(history[1].returned) = 2 /\ Len(history[2].returned) = 2
    /\ history[1].returned[1] # history[1].returned[2]

(***************************************************************************)
(* C15: is_statistically_significant(p_value, alpha) returns true exactly  *)
(* when p_value is below alpha, and false when the two are equal.          *)
(***************************************************************************)
C15_StrictThreshold ==
    ret.op = "is_statistically_significant" =>
        LET p == ret.args.p_value
            a == ret.args.alpha
        IN  /\ ret.out = TRUE <=> p[1] * a[2] < a[1] * p[2]
            /\ p = a => ret.out = FALSE

\* The boundary: p_value = alpha = 0.05
C15_Witness ==
    /\ ret.op = "is_statistically_significant"
    /\ ret.args.p_value = Fl(Rat(1, 20)) /\ ret.args.alpha = Fl(Rat(1, 20))
    /\ ret.out = FALSE

(***************************************************************************)
(* C16: z_test_proportions raises the validation error whenever            *)
(* exposures_a <= 0 or exposures_b <= 0, whatever the conversions are, and *)
(* no division has been evaluated when it does.                            *)
(***************************************************************************)
C16_ExposuresValidated ==
    ret.op = "z_test_proportions" =>
        ((ret.args.exposures_a <= 0 \/ ret.args.exposures_b <= 0) =>
            /\ ret.out.raised = "Exposures must be positive"
            /\ ret.out.divisions = 0)

\* exposures_a = 0 with conversions and exposures in B
C16_Witness ==
    /\ ret.op = "z_test_proportions"
    /\ ret.args.exposures_a = 0 /\ ret.args.conversions_a = 0
    /\ ret.args.exposures_b = 2 /\ ret.args.conversions_b = 1
    /\ ret.out.raised = "Exposures must be positive"

(***************************************************************************)
(* C17: with positive exposures, z_test_proportions returns exactly        *)
(* (0, 1, 0) whenever the pooled proportion is 0 or 1 and whenever the     *)
(* standard error is 0, and it never divides by a standard error of 0.     *)
(***************************************************************************)
C17_ZeroStandardError ==
    (/\ ret.op = "z_test_proportions"
     /\ ret.args.exposures_a > 0 /\ ret.args.exposures_b > 0) =>
        LET conversions == ret.args.conversions_a + ret.args.conversions_b
            exposures == ret.args.exposures_a + ret.args.exposures_b
        IN  /\ (conversions = 0 \/ conversions = exposures) =>
                  (ret.out.raised = None /\ ret.out.result = <<Zero, One, Zero>>)
            /\ (ret.out.raised = None /\ ret.out.result[3] = Zero) =>
                  ret.out.result = <<Zero, One, Zero>>
            /\ ret.out.raised # "ZeroDivisionError"

\* Every exposure converted, in groups of different sizes: pooled proportion 1
C17_Witness ==
    /\ ret.op = "z_test_proportions"
    /\ ret.args.conversions_a = 1 /\ ret.args.exposures_a = 1
    /\ ret.args.conversions_b = 3 /\ ret.args.exposures_b = 3
    /\ ret.out.result = <<Zero, One, Zero>>

(***************************************************************************)
(* C18: for valid inputs (positive exposures, conversions between 0 and    *)
(* the exposures) with equal conversion rates in A and B, the two-tailed   *)
(* z_test_proportions returns a z-score of 0 and a p-value above 0.9.      *)
(***************************************************************************)
ValidCounts(conversions, exposures) ==
    exposures > 0 /\ 0 <= conversions /\ conversions <= exposures

C18_EqualRates ==
    (/\ ret.op = "z_test_proportions"
     /\ ret.args.two_tailed
     /\ ValidCounts(ret.args.conversions_a, ret.args.exposures_a)
     /\ ValidCounts(ret.args.conversions_b, ret.args.exposures_b)
     /\ ret.args.conversions_a * ret.args.exposures_b
           = ret.args.conversions_b * ret.args.exposures_a) =>
        /\ ret.out.raised = None
        /\ ret.out.result[1] = Zero
        /\ RatLt(Rat(9, 10), ret.out.result[2])

\* 1/2 against 2/4: equal rates, a standard error above 0
C18_Witness ==
    /\ ret.op = "z_test_proportions" /\ ret.args.two_tailed
    /\ ret.args.conversions_a = 1 /\ ret.args.exposures_a = 2
    /\ ret.args.conversions_b = 2 /\ ret.args.exposures_b = 4
    /\ ret.out.raised = None
    /\ RatLt(Zero, ret.out.result[3])

(***************************************************************************)
(* C19: calculate_confidence_interval raises a validation error whenever   *)
(* exposures <= 0, or conversions < 0, or conversions > exposures, or      *)
(* confidence_level is not strictly between 0 and 1; for every other input *)
(* it returns a pair of bounds.                                            *)
(***************************************************************************)
ValidationErrors ==
    {"Exposures must be positive", "Conversions must be between 0 and exposures",
     "Confidence level must be between 0 and 1"}

C19_IntervalValidated ==
    ret.op = "calculate_confidence_interval" =>
        LET invalid == \/ ret.args.exposures <= 0
                       \/ ret.args.conversions < 0
                       \/ ret.args.conversions > ret.args.exposures
                       \/ ~(ret.args.confidence_level[1] > 0
                            /\ ret.args.confidence_level[1] < ret.args.confidence_level[2])
        IN  IF invalid
            THEN ret.out.raised \in ValidationErrors /\ ret.out.result = NoResult
            ELSE ret.out.raised = None /\ Len(ret.out.result) = 2

\* conversions = exposures is valid: a pair of bounds is returned
C19_Witness ==
    /\ ret.op = "calculate_confidence_interval"
    /\ ret.args.conversions = 2 /\ ret.args.exposures = 2
    /\ ret.args.confidence_level = Rat(3, 4)
    /\ ret.out.raised = None /\ Len(ret.out.result) = 2

(***************************************************************************)
(* C20: for every valid input (exposures > 0, 0 <= conversions <=          *)
(* exposures, 0 < confidence_level < 1) the bounds that                    *)
(* calculate_confidence_interval returns satisfy                           *)
(* 0 <= lower <= conversions / exposures <= upper <= 1.                    *)
(***************************************************************************)
C20_IntervalContainsRate ==
    (ret.op = "calculate_confidence_interval" /\ ret.out.raised = None) =>
        LET rate == FDiv(Float(ret.args.conversions), Float(ret.args.exposures))
            lower == ret.out.result[1]
            upper == ret.out.result[2]
        IN  /\ RatLeq(Zero, lower) /\ RatLeq(lower, rate)
            /\ RatLeq(rate, upper) /\ RatLeq(upper, One)

(***************************************************************************)
(* C28: a call of assign_variant with a user_id leaves the instance's      *)
(* generator where it was: the generator has advanced by exactly the calls *)
(* made without user_id, and two instances with the same seed and          *)
(* configuration return the same variants in those calls whatever keyed    *)
(* calls and record_conversion calls came between them.                    *)
(***************************************************************************)
C28_KeyedCallsKeepGenerator ==
    /\ \A a \in DOMAIN history :
          /\ exps[a].random.draws = Len(history[a].returned)
          /\ (ret.op = "assign_variant" /\ ret.exp = a /\ ret.user_id = None) =>
                ret.value = Random([seed |-> exps[a].random.seed,
                                    draws |-> Len(history[a].returned) - 1])
    /\ \A a, b \in DOMAIN history :
          (SameSeedAndConfiguration(a, b)
             /\ Len(history[a].returned) = Len(history[b].returned)) =>
                history[a].returned = history[b].returned

\* Two instances over different objects with the same seed and configuration
\* have both made two calls without user_id; the first instance also took a
\* keyed call and a conversion, the second neither
C28_Witness ==
    /\ Len(history) = 2
    /\ SameSeedAndConfiguration(1, 2)
    /\ exps[1].variants = <<1, 2>> /\ exps[2].variants = <<3, 4>>
    /\ Len(history[1].returned) = 2 /\ Len(history[2].returned) = 2
    /\ history[1].returned[1] # history[1].returned[2]
    /\ heap[1].exposures + heap[2].exposures = 3
    /\ heap[1].conversions + heap[2].conversions >= 1
    /\ heap[3].exposures + heap[4].exposures = 2
    /\ heap[3].conversions + heap[4].conversions = 0

(***************************************************************************)
(* C21: calculate_sample_size raises one of its validation errors when the *)
(* baseline rate, alpha or power is not strictly between 0 and 1, the      *)
(* effect is not above 0, or baseline_rate * (1 + effect) is 1 or more,    *)
(* and returns a positive integer for every other input.                   *)
(***************************************************************************)
SampleSizeErrors ==
    {"Baseline rate must be between 0 and 1", "Minimum detectable effect must be positive",
     "Alpha must be between 0 and 1", "Power must be between 0 and 1",
     "Treatment rate would exceed 1"}

StrictlyInside(x) == RatLt(Zero, x) /\ RatLt(x, One)

InvalidSampleSizeArgs(args) ==
    \/ ~StrictlyInside(args.baseline_rate)
    \/ RatLeq(args.minimum_detectable_effect, Zero)
    \/ ~StrictlyInside(args.alpha)
    \/ ~StrictlyInside(args.power)
    \/ RatLeq(One, FMul(args.baseline_rate, FAdd(One, args.minimum_detectable_effect)))

C21_SampleSizeValidated ==
    ret.op = "calculate_sample_size" =>
        IF InvalidSampleSizeArgs(ret.args)
        THEN ret.out.raised \in SampleSizeErrors /\ ret.out.result = NoResult
        ELSE /\ ret.out.raised = None
             /\ ret.out.result # NoResult
             /\ ret.out.result[1] \in Nat \ {0}

(***************************************************************************)
(* C22: with the baseline rate, alpha, power and tailedness fixed, a       *)
(* larger valid effect never gives a larger sample size.                   *)
(***************************************************************************)
C22_MonotoneInEffect ==
    (ret.op = "calculate_sample_size" /\ ret.out.raised = None) =>
        \A larger \in Effects :
            RatLt(ret.args.minimum_detectable_effect, larger) =>
                LET other == calculate_sample_size(ret.args.baseline_rate, larger,
                                                   ret.args.alpha, ret.args.power,
                                                   ret.args.two_tailed)
                IN  other.raised = None => other.result[1] <= ret.out.result[1]

(***************************************************************************)
(* C23: calculate_relative_uplift raises its validation error exactly when *)
(* control_rate is 0, and otherwise returns (treatment_rate -              *)
(* control_rate) / control_rate up to the rounding of its two operations:  *)
(* about 0.20 from 0.10 to 0.12, below 0 for a lower treatment rate and a  *)
(* positive control rate.                                                  *)
(***************************************************************************)
\* (treatment_rate - control_rate) / control_rate in exact arithmetic, with a
\* positive denominator
ExactUplift(control_rate, treatment_rate) ==
    LET difference == treatment_rate[1] * control_rate[2] - control_rate[1] * treatment_rate[2]
    IN  Rat(IF control_rate[1] < 0 THEN -difference ELSE difference,
            treatment_rate[2] * Abs(control_rate[1]))

\* |x - y| <= tolerance * |y|, all with positive denominators
RelativelyClose(x, y, tolerance) ==
    Abs(x[1] * y[2] - y[1] * x[2]) * tolerance[2] <= tolerance[1] * Abs(y[1]) * x[2]

C23_RelativeUplift ==
    ret.op = "calculate_relative_uplift" =>
        LET control_rate == ret.args.control_rate
            treatment_rate == ret.args.treatment_rate
        IN  IF control_rate = Zero
            THEN /\ ret.out.raised = "Control rate cannot be zero"
                 /\ ret.out.result = NoResult
            ELSE /\ ret.out.raised = None
                 /\ ret.out.result # NoResult
                 /\ RelativelyClose(ret.out.result[1],
                                    ExactUplift(control_rate, treatment_rate),
                                    <<3, Pow2(MantissaBits)>>)
                 /\ (control_rate = Fl(Rat(1, 10)) /\ treatment_rate = Fl(Rat(3, 25))) =>
                       RatLeq(RatAbs(RatAdd(ret.out.result[1], Rat(-1, 5))),
                              Rat(1, Pow2(MantissaBits - 2)))
                 /\ (RatLt(Zero, control_rate) /\ RatLt(treatment_rate, control_rate)) =>
                       RatLt(ret.out.result[1], Zero)

\* From 0.10 down to 0.08: a negative uplift
C23_Witness ==
    /\ ret.op = "calculate_relative_uplift"
    /\ ret.args.control_rate = Fl(Rat(1, 10))
    /\ ret.args.treatment_rate = Fl(Rat(2, 25))
    /\ ret.out.raised = None
    /\ RatLt(ret.out.result[1], Zero)

(***************************************************************************)
(* C24: chi_square_test raises its validation error for every table with   *)
(* fewer than 2 rows or fewer than 2 columns, and the library function     *)
(* that computes the statistic is not called.                              *)
(***************************************************************************)
\* A list of rows that are equally long
Rectangular(table) == \A i \in 1 .. Len(table) : Len(table[i]) = Len(table[1])

C24_TableValidated ==
    ret.op = "chi_square_test" =>
        LET table == ret.args.contingency_table
        IN  (Rectangular(table) /\ (Len(table) < 2 \/ Len(table[1]) < 2)) =>
                /\ ret.out.raised = "Contingency table must be at least 2x2"
                /\ ret.out.result = NoResult

\* A table of two rows and one column
C24_Witness ==
    /\ ret.op = "chi_square_test"
    /\ ret.args.contingency_table = <<(<<10>>), (<<10>>)>>
    /\ ret.out.raised = "Contingency table must be at least 2x2"

(***************************************************************************)
(* C25: t_test_means raises its validation error when either sample has    *)
(* fewer than 2 values, whatever the other sample and equal_var are.       *)
(***************************************************************************)
C25_SamplesValidated ==
    ret.op = "t_test_means" =>
        \A sample \in {ret.args.values_a, ret.args.values_b} :
            Len(sample) < 2 =>
                /\ ret.out.raised = "Each sample must have at least 2 values"
                /\ ret.out.result = NoResult

\* A first sample of three values, a second of one, unequal variances
C25_Witness ==
    /\ ret.op = "t_test_means"
    /\ Len(ret.args.values_a) = 3 /\ Len(ret.args.values_b) = 1
    /\ ~ret.args.equal_var
    /\ ret.out.raised = "Each sample must have at least 2 values"

(***************************************************************************)
(* C26: every call of assign_variant returns one variant of the experiment *)
(* and records exactly one exposure, on that variant; when no cumulative   *)
(* weight reaches the value, the variant returned is the last of the list. *)
(***************************************************************************)
C26_FallbackToLast ==
    [][ret'.op = "assign_variant" =>
          LET variants == exps[ret'.exp].variants
              w == Weights(heap, variants)
          IN  /\ ret'.index \in 1 .. Len(variants)
              /\ ret'.variant = variants[ret'.index]
              /\ heap' = [heap EXCEPT ![ret'.variant].exposures = @ + 1]
              /\ Reached(w, ret'.value) = {} => ret'.index = Len(variants)]_vars

\* The weights of two distinct objects sum to less than the value: the last
\* one is returned and has the exposure
C26_Witness ==
    /\ IsAssign
    /\ LET variants == exps[ret.exp].variants
       IN  /\ variants[1] # variants[2]
           /\ RatLt(SumSeq(Weights(heap, variants)), ret.value)
           /\ ret.index = Len(variants)
           /\ heap[variants[2]].exposures = 1 /\ heap[variants[1]].exposures = 0

(***************************************************************************)
(* C27: the value that a call with a user_id buckets is k / 10000 for the  *)
(* integer k in 0 .. 9999 that differs from the hash of user_id + name by  *)
(* a multiple of 10000, for negative hashes too; it is at least 0 and      *)
(* below 1.                                                                *)
(***************************************************************************)
C27_BucketInUnitInterval ==
    (IsAssign /\ ret.user_id # None) =>
        LET hash_val == Hash(hashKey, ret.user_id \o exps[ret.exp].name)
        IN  /\ 10000 % ret.value[2] = 0
            /\ LET k == ret.value[1] * (10000 \div ret.value[2])
               IN  /\ k \in 0 .. 9999
                   /\ \E q \in -2 .. 2 : hash_val = q * 10000 + k
            /\ RatLeq(Zero, ret.value) /\ RatLt(ret.value, One)

\* A negative hash that is no multiple of 10000
C27_Witness ==
    /\ IsAssign /\ ret.user_id # None
    /\ Hash(hashKey, ret.user_id \o exps[ret.exp].name) = -7500
    /\ ret.value = Rat(1, 4)

(***************************************************************************)
(* C29: after the construction of an experiment from positive weights,     *)
(* every bucket value k/10000 selects one variant of the list, and the     *)
(* number of bucket values that select a variant, over 10000, is within    *)
(* 1/10000 of the variant's normalized weight.                             *)
(***************************************************************************)
BucketsOf(h, variants, id) ==
    {k \in 0 .. HashModulus - 1 :
        variants[SelectVariant(h, variants, Rat(k, HashModulus))] = id}

C29_BucketsMatchWeights ==
    [][(/\ ret'.op = "Experiment" /\ ret'.raised = None
        /\ PositiveWeights(heap, ret'.variants)) =>
          \A i \in 1 .. Len(ret'.variants) :
              LET id == ret'.variants[i]
                  count == Cardinality(BucketsOf(heap', ret'.variants, id))
                  weight == heap'[id].weight
              IN  /\ (count - 1) * weight[2] <= HashModulus * weight[1]
                  /\ HashModulus * weight[1] <= (count + 1) * weight[2]]_vars

(***************************************************************************)
(* C30: a construction that raises (fewer than 2 variants, or a total      *)
(* weight of 0 or less) leaves every Variant object as it was, weights,    *)
(* exposures and conversions, and makes no instance; a construction that   *)
(* rewrites a weight has passed both validations.                          *)
(***************************************************************************)
C30_FailedConstructionFrame ==
    [][ret'.op = "Experiment" =>
          /\ ret'.raised # None => (heap' = heap /\ exps' = exps)
          /\ heap' # heap =>
                /\ ret'.raised = None
                /\ Len(ret'.variants) >= 2
                /\ RatLt(Zero, SumSeq(Weights(heap, ret'.variants)))]_vars

\* Two variants with a total below 0 were refused and have their weights
C30_Witness ==
    /\ ret.op = "Experiment" /\ ret.raised = "Total weight must be positive"
    /\ Weights(heap, ret.variants) = <<Rat(-1, 1), Rat(-1, 1)>>
    /\ ret.variants[1] # ret.variants[2]
====
